---- MODULE Spec2Model ----
(***************************************************************************)
(* Irish_virus: the HTML-table parsing and record-extraction pipeline of   *)
(* src/main.py (Information, parse_html_table, clean_table_title,          *)
(* load_file, plot_map and the script run of main).                        *)
(*                                                                         *)
(* A text (a Python str) is the sequence of its characters, each a        *)
(* one-character string: "Cork" is <<"C", "o", "r", "k">>.  The characters *)
(* from U+2000 on cannot be written in a string of this language and are   *)
(* named by their Python escape ("\\u2000"); they occur as whitespace only. *)
(* A rate is an exact fraction [n |-> numerator, d |-> denominator] in     *)
(* lowest terms (Python floats are not representable; the fraction is the  *)
(* value before float rounding).                                           *)
(* An outcome is [err |-> "none", val |-> v] for a returned value and      *)
(* [err |-> <exception name>, val |-> <<>>] for a raised exception.        *)
(***************************************************************************)
EXTENDS Integers, Sequences, FiniteSets

VARIABLES
    count_text,      \* Information.__init__ argument `number`
    rate_text,       \* Information.__init__ argument `rate`
    info,            \* outcome of Information( ... ), or Pending
    document,        \* the HTML document one load_file call reads
    built,           \* load_file: `result` after the construction loop
    loaded,          \* outcome of the load_file call, or Pending
    files,           \* the data directory: file name -> document
    cache,           \* st.cache store of load_file: file name -> result
    data,            \* main: `data`, file name -> List[ Information ]
    evolution_data,  \* main: `evolution_data`, or Pending
    map_figure,      \* plot_map: the labels drawn on `map_figure`, or Pending
    error,           \* exception that ended the current script run
    pc               \* position of the script run / of the operation

vars == << count_text, rate_text, info, document, built, loaded,
           files, cache, data, evolution_data, map_figure,
           error, pc >>

Ok(v) == [err |-> "none", val |-> v]
Raise(e) == [err |-> e, val |-> <<>>]

\* ------------------------------------------------------------------ bounds
MaxCountLen == 5
MaxRateLen == 2
MaxTables == 2
MaxHeadings == 2
MaxSelected == 1

\* ------------------------------------------------------------- arithmetic
Min(a, b) == IF a <= b THEN a ELSE b

RECURSIVE GCD(_, _)
GCD(a, b) == IF b = 0 THEN a ELSE GCD(b, a % b)

\* the fraction n/d (d > 0) in lowest terms
Rat(n, d) == LET g == GCD(n, d) IN [n |-> n \div g, d |-> d \div g]

RECURSIVE Pow10(_)
Pow10(k) == IF k = 0 THEN 1 ELSE 10 * Pow10(k - 1)

\* ------------------------------------------------------------------- texts
Digits == {"0", "1", "2", "3", "4", "5", "6", "7", "8", "9"}
\* the characters str.isspace() accepts, which str.strip() removes:
\* U+0009..U+000D, U+001C..U+0020, U+0085, U+00A0, U+1680, U+2000..U+200A,
\* U+2028, U+2029, U+202F, U+205F, U+3000
Whitespace ==
    {
      "\t", "\n", "", "\f", "\r", "",
      "", "", "", " ", "", " ",
      " ", "\\u2000", "\\u2001", "\\u2002", "\\u2003", "\\u2004",
      "\\u2005", "\\u2006", "\\u2007", "\\u2008", "\\u2009", "\\u200a",
      "\\u2028", "\\u2029", "\\u202f", "\\u205f", "\\u3000" }

DigitValue(c) ==
    CASE c = "0" -> 0 [] c = "1" -> 1 [] c = "2" -> 2 [] c = "3" -> 3
      [] c = "4" -> 4 [] c = "5" -> 5 [] c = "6" -> 6 [] c = "7" -> 7
      [] c = "8" -> 8 [] c = "9" -> 9

\* the character class [0-9.,] of the regular expression
IsNumChar(c) == c \in Digits \cup {".", ","}

\* length of the longest prefix of s made of [0-9.,] characters
RECURSIVE RunLen(_)
RunLen(s) ==
    IF s = <<>> \/ ~IsNumChar(Head(s)) THEN 0 ELSE 1 + RunLen(Tail(s))

\* re.findall( r"([0-9.,]+)", s ): every maximal run, left to right
RECURSIVE findall(_)
findall(s) ==
    IF s = <<>> THEN <<>>
    ELSE IF ~IsNumChar(Head(s)) THEN findall(Tail(s))
    ELSE LET n == RunLen(s)
         IN  <<SubSeq(s, 1, n)>> \o findall(SubSeq(s, n + 1, Len(s)))

\* the decimal value of a sequence of digits
RECURSIVE DigitsValue(_)
DigitsValue(s) ==
    IF s = <<>> THEN 0
    ELSE DigitsValue(SubSeq(s, 1, Len(s) - 1)) * 10 + DigitValue(s[Len(s)])

\* int( run ) on a run of [0-9.,]: only a run of digits is an integer literal
int(run) ==
    IF \A i \in 1..Len(run) : run[i] \in Digits
    THEN Ok(DigitsValue(run))
    ELSE Raise("ValueError")

SelectDigits(run) == SelectSeq(run, LAMBDA c : c \in Digits)

\* position of the first "." of run, 0 when it has none
DotAt(run) ==
    IF \E i \in 1..Len(run) : run[i] = "."
    THEN CHOOSE i \in 1..Len(run) :
             run[i] = "." /\ \A j \in 1..(i - 1) : run[j] # "."
    ELSE 0

\* float( run ) on a run of [0-9.,]: digits with at most one ".", no ","
float(run) ==
    IF /\ \A i \in 1..Len(run) : run[i] # ","
       /\ Cardinality({i \in 1..Len(run) : run[i] = "."}) <= 1
       /\ \E i \in 1..Len(run) : run[i] \in Digits
    THEN Ok(Rat(DigitsValue(SelectDigits(run)),
                Pow10(IF DotAt(run) = 0 THEN 0 ELSE Len(run) - DotAt(run))))
    ELSE Raise("ValueError")

\* str.strip(): drop the leading and the trailing whitespace
RECURSIVE lstrip(_)
lstrip(s) ==
    IF s # <<>> /\ Head(s) \in Whitespace THEN lstrip(Tail(s)) ELSE s

RECURSIVE rstrip(_)
rstrip(s) ==
    IF s # <<>> /\ s[Len(s)] \in Whitespace
    THEN rstrip(SubSeq(s, 1, Len(s) - 1)) ELSE s

strip(s) == rstrip(lstrip(s))

\* `word in s`: word is a contiguous part of s
Contains(s, word) ==
    \E i \in 1..(Len(s) - Len(word) + 1) : SubSeq(s, i, i + Len(word) - 1) = word

\* ------------------------------------------------------------ Information
\* self.number: the first run parsed by int, 0 when there is no run
ParseNumber(number) ==
    LET m == findall(number)
    IN  IF m = <<>> THEN Ok(0) ELSE int(m[1])

\* self.rate: the first run parsed by float, 0 when there is no run
ParseRate(rate) ==
    LET m == findall(rate)
    IN  IF m = <<>> THEN Ok(Rat(0, 1)) ELSE float(m[1])

Information(description, number, rate, info_type) ==
    LET n == ParseNumber(number)
        r == ParseRate(rate)
    IN  IF n.err # "none" THEN Raise(n.err)
        ELSE IF r.err # "none" THEN Raise(r.err)
        ELSE Ok([description |-> description, number |-> n.val,
                 rate |-> r.val, info_type |-> info_type])

\* ------------------------------------------------------- parse_html_table
\* An HTML table is a sequence of <tr> rows; a row is
\* [strong |-> it holds a <strong> element, cells |-> the texts of its <td>].
\* A bs4 Tag is always truthy, so the `if el` filter keeps every cell.
ParseRow(row) == [i \in 1..Len(row.cells) |-> strip(row.cells[i])]

\* mutant: the <strong> test is lost and every row counts as a data row
parse_all_rows(table) ==
    [cols |-> << >>,
     data |-> [i \in 1..Len(table) |-> ParseRow(table[i])]]

parse_html_table(table) ==
    LET cols == SelectSeq(table, LAMBDA row : row.strong)
        rows == SelectSeq(table, LAMBDA row : ~row.strong)
    IN  [cols |-> [i \in 1..Len(cols) |-> ParseRow(cols[i])],
         data |-> [i \in 1..Len(rows) |-> ParseRow(rows[i])]]

clean_table_title(title) == strip(title)

\* --------------------------------------------------------------- load_file
RowWidth == 3

\* row.extend( [ "" ] * ( 3 - len( row ) ) )
extend(row) ==
    IF Len(row) >= RowWidth THEN row
    ELSE row \o [i \in 1..(RowWidth - Len(row)) |-> <<>>]

\* mutant: the pairing runs to the longer sequence, filling what is missing
zip_longest(tables, titles) ==
    [i \in 1..(IF Len(tables) >= Len(titles) THEN Len(tables) ELSE Len(titles)) |->
        << IF i <= Len(tables) THEN tables[i] ELSE [cols |-> << >>, data |-> << >>],
           IF i <= Len(titles) THEN titles[i] ELSE << >> >>]

\* zip( tables, titles ): stops at the shorter sequence
zip(tables, titles) ==
    [i \in 1..Min(Len(tables), Len(titles)) |-> <<tables[i], titles[i]>>]

\* the inner loop: one Information per data row, in row order
RECURSIVE BuildRows(_, _)
BuildRows(rows, table_title) ==
    IF rows = <<>> THEN Ok(<<>>)
    ELSE LET row == extend(Head(rows))
             el == Information(row[1], row[2], row[3], table_title)
         IN  IF el.err # "none" THEN Raise(el.err)
             ELSE LET rest == BuildRows(Tail(rows), table_title)
                  IN  IF rest.err # "none" THEN rest
                      ELSE Ok(<<el.val>> \o rest.val)

\* the outer loop over the (table, title) pairs, in document order
RECURSIVE BuildPairs(_)
BuildPairs(pairs) ==
    IF pairs = <<>> THEN Ok(<<>>)
    ELSE LET these == BuildRows(Head(pairs)[1].data, Head(pairs)[2])
         IN  IF these.err # "none" THEN these
             ELSE LET rest == BuildPairs(Tail(pairs))
                  IN  IF rest.err # "none" THEN rest
                      ELSE Ok(these.val \o rest.val)

\* lines 257-268: `result` after the construction loop
BuildResult(doc) ==
    BuildPairs(zip([i \in 1..Len(doc.tables) |-> parse_html_table(doc.tables[i])],
                   [i \in 1..Len(doc.headings) |-> clean_table_title(doc.headings[i])]))

IsCounty(el) == Contains(el.info_type, <<"c", "o", "u", "n", "t", "y">>)

RECURSIVE SumNumbers(_)
SumNumbers(els) ==
    IF els = <<>> THEN 0 ELSE Head(els).number + SumNumbers(Tail(els))

\* sum( [ el.number for el in result if "county" in el.info_type ] )
NumberCases(result) == SumNumbers(SelectSeq(result, IsCounty))

\* mutant: the share is not scaled to a percentage
CountyRateNoPercent(el, number_cases) == Rat(el.number, number_cases)

\* county.number / number_cases * 100
CountyRate(el, number_cases) == Rat(el.number * 100, number_cases)

\* mutant: each county category is rated against its own sum
ComputeRatesPerCategory(result) ==
    LET own(el) == SumNumbers(SelectSeq(result,
                       LAMBDA x : IsCounty(x) /\ x.info_type = el.info_type))
    IN  IF SelectSeq(result, IsCounty) = <<>> THEN Ok(result)
        ELSE IF \E i \in 1..Len(result) : IsCounty(result[i]) /\ own(result[i]) = 0
        THEN Raise("ZeroDivisionError")
        ELSE Ok([i \in 1..Len(result) |->
                    IF IsCounty(result[i])
                    THEN [result[i] EXCEPT !.rate = Rat(result[i].number * 100, own(result[i]))]
                    ELSE result[i]])

\* lines 270-273: the rates of the counties, computed in place
ComputeRates(result) ==
    LET number_cases == NumberCases(result)
    IN  IF SelectSeq(result, IsCounty) = <<>> THEN Ok(result)
        ELSE IF number_cases = 0 THEN Raise("ZeroDivisionError")
        ELSE Ok([i \in 1..Len(result) |->
                    IF IsCounty(result[i])
                    THEN [result[i] EXCEPT !.rate = CountyRate(result[i], number_cases)]
                    ELSE result[i]])

\* the body of load_file on a parsed document
load_file(doc) ==
    LET b == BuildResult(doc)
    IN  IF b.err # "none" THEN b ELSE ComputeRates(b.val)

\* ------------------------------------------------------------ the inputs
SeqsUpTo(S, n) == UNION {[1..m -> S] : m \in 0..n}

\* the characters a raw count or rate text is drawn from
Chars == {"1", ",", ".", "a"}
CountTexts == SeqsUpTo(Chars, MaxCountLen)
RateTexts == SeqsUpTo(Chars, MaxRateLen)

Header(cells) == [strong |-> TRUE, cells |-> cells]
DataRow(cells) == [strong |-> FALSE, cells |-> cells]

\* the county table of 2020_03_19: two header rows, three two-cell rows
CountyTable ==
    << Header(<< <<"C", "a", "s", "e", "s", " ", "b", "y", " ", "c", "o", "u", "n", "t", "y">> >>),
       Header(<< <<"C", "o", "u", "n", "t", "y">>, <<"C", "a", "s", "e", "s">> >>),
       DataRow(<< <<"D", "u", "b", "l", "i", "n">>, <<"1", "0">> >>),
       DataRow(<< <<"\n", " ", "C", "o", "r", "k", "\n">>, <<"\t", "5">> >>),
       DataRow(<< <<"C", "l", "a", "r", "e">>, <<"0">> >>) >>

\* a second county table, with a rate text in the source
OtherCountyTable ==
    << DataRow(<< <<"D", "u", "b", "l", "i", "n">>, <<"3">>, <<"9", "9">> >>),
       Header(<< <<"T", "o", "t", "a", "l">>, <<"4">> >>),
       DataRow(<< <<"G", "a", "l", "w", "a", "y">>, <<"1", " ", "c", "a", "s", "e">> >>) >>

\* a county table whose counts sum to 0
ZeroTable ==
    << DataRow(<< <<"D", "u", "b", "l", "i", "n">>, <<"0">> >>),
       DataRow(<< <<"C", "o", "r", "k">>, <<"n", "/", "a">> >>) >>

\* a statistics table with rates in the source and one short row
StatsTable ==
    << Header(<< <<"G", "e", "n", "d", "e", "r">>, <<"C", "a", "s", "e", "s">>, <<"%">> >>),
       DataRow(<< <<"M", "a", "l", "e">>, <<"7">>, <<"5", "0", ".", "5", "%">> >>),
       DataRow(<< <<"F", "e", "m", "a", "l", "e">>, <<" ", "6", "\r", "\n">>, <<"x">> >>),
       DataRow(<< <<"U", "n", "k", "n", "o", "w", "n">>, <<"2">> >>) >>

\* rows of 0, 1 and 4 cells
OddTable ==
    << DataRow(<< >>),
       DataRow(<< <<"T", "o", "t", "a", "l">> >>),
       DataRow(<< <<"I", "C", "U">>, <<"4">>, <<".", "5">>, <<"9">> >>) >>

\* a count written with a thousands separator, in a two-cell row
SeparatorTable ==
    << DataRow(<< <<"T", "o", "t", "a", "l">>, <<"1", ",", "2", "3", "4">> >>) >>

TableSet == { CountyTable, OtherCountyTable, ZeroTable, StatsTable,
              OddTable, SeparatorTable, << >> }

\* "\n Cases by county\t"
CountyHeading ==
    <<"\n", " ", "C", "a", "s", "e", "s", " ", "b", "y", " ", "c", "o", "u", "n", "t", "y", "\t">>

\* "Deaths countywide": the word inside a longer one
CountywideHeading ==
    <<"D", "e", "a", "t", "h", "s", " ", "c", "o", "u", "n", "t", "y", "w", "i", "d", "e">>

\* "Cases by County": the word in another case
CapitalHeading ==
    <<"C", "a", "s", "e", "s", " ", "b", "y", " ", "C", "o", "u", "n", "t", "y">>

AgeHeading == <<"A", "g", "e", " ", "r", "a", "n", "g", "e">>

StatisticsHeading == <<"S", "t", "a", "t", "i", "s", "t", "i", "c", "s">>

HeadingSet == { CountyHeading, CountywideHeading, CapitalHeading, AgeHeading }

DocSet ==
    { [tables |-> t, headings |-> h] :
        t \in SeqsUpTo(TableSet, MaxTables), h \in SeqsUpTo(HeadingSet, MaxHeadings) }

Pending == [err |-> "pending", val |-> << >>]

\* ------------------------------------------------- Information.__init__
InitRecord ==
    /\ count_text \in CountTexts
    /\ rate_text \in RateTexts
    /\ info = Pending
    /\ document = [tables |-> << >>, headings |-> << >>]
    /\ built = Pending
    /\ loaded = Pending
    /\ files = << >>
    /\ cache = << >>
    /\ data = << >>
    /\ evolution_data = Pending
    /\ map_figure = Pending
    /\ error = "none"
    /\ pc = "new"

Construct ==
    /\ pc = "new"
    /\ \E description \in { << >>, <<"D", "u", "b", "l", "i", "n">> } :
          info' = Information(description, count_text, rate_text, StatisticsHeading)
    /\ pc' = "constructed"
    /\ UNCHANGED << count_text, rate_text, document, built, loaded,
                    files, cache, data, evolution_data,
                    map_figure, error >>

NextRecord == Construct

SpecRecord == InitRecord /\ [][NextRecord]_vars

\* --------------------------------------------------- one load_file call
InitLoad ==
    /\ count_text = << >>
    /\ rate_text = << >>
    /\ info = Pending
    /\ document \in DocSet
    /\ built = Pending
    /\ loaded = Pending
    /\ files = << >>
    /\ cache = << >>
    /\ data = << >>
    /\ evolution_data = Pending
    /\ map_figure = Pending
    /\ error = "none"
    /\ pc = "start"

Load ==
    /\ pc = "start"
    /\ built' = BuildResult(document)
    /\ loaded' = load_file(document)
    /\ pc' = "done"
    /\ UNCHANGED << count_text, rate_text, info, document,
                    files, cache, data, evolution_data,
                    map_figure, error >>

NextLoad == Load

SpecLoad == InitLoad /\ [][NextLoad]_vars

\* ------------------------------------------------------------------ main
\* the snapshot files of the data directory, named by their date
Keys == {"2020_03_19", "2020_03_20"}

\* the keys of Constants.COUNTY_SETTINGS, in the order of the dictionary
CountyOrder ==
    << <<"C", "a", "r", "l", "o", "w">>,
      <<"C", "a", "v", "a", "n">>,
      <<"C", "l", "a", "r", "e">>,
      <<"C", "o", "r", "k">>,
      <<"D", "o", "n", "e", "g", "a", "l">>,
      <<"D", "u", "b", "l", "i", "n">>,
      <<"G", "a", "l", "w", "a", "y">>,
      <<"K", "e", "r", "r", "y">>,
      <<"K", "i", "l", "d", "a", "r", "e">>,
      <<"K", "i", "l", "k", "e", "n", "n", "y">>,
      <<"L", "i", "m", "e", "r", "i", "c", "k">>,
      <<"L", "o", "n", "g", "f", "o", "r", "d">>,
      <<"L", "o", "u", "t", "h">>,
      <<"M", "a", "y", "o">>,
      <<"M", "e", "a", "t", "h">>,
      <<"O", "f", "f", "a", "l", "y">>,
      <<"R", "o", "s", "c", "o", "m", "m", "o", "n">>,
      <<"S", "l", "i", "g", "o">>,
      <<"T", "i", "p", "p", "e", "r", "a", "r", "y">>,
      <<"W", "a", "t", "e", "r", "f", "o", "r", "d">>,
      <<"W", "e", "s", "t", "m", "e", "a", "t", "h">>,
      <<"W", "e", "x", "f", "o", "r", "d">>,
      <<"W", "i", "c", "k", "l", "o", "w">> >>

\* the counties offered by the multiselect (sorted keys of COUNTY_SETTINGS)
Counties == { CountyOrder[i] : i \in DOMAIN CountyOrder }

\* the selections of at most MaxSelected counties
Selections == { sel \in SUBSET Counties : Cardinality(sel) <= MaxSelected }

\* the key of the series shown when no county is selected
Total == <<"T", "o", "t", "a", "l">>

\* a county table with a row for each county of COUNTY_SETTINGS
FullCountyTable ==
    [i \in DOMAIN CountyOrder |->
        DataRow(<< CountyOrder[i],
                   IF CountyOrder[i] = <<"D", "u", "b", "l", "i", "n">>
                   THEN <<"1", "2">> ELSE <<"1">> >>)]

SnapshotSet ==
    { [tables |-> <<CountyTable, StatsTable>>,
       headings |-> <<CountyHeading, AgeHeading>>],
      [tables |-> <<StatsTable>>, headings |-> <<AgeHeading>>],
      [tables |-> <<ZeroTable>>, headings |-> <<CountyHeading>>],
      [tables |-> <<FullCountyTable>>, headings |-> <<CountyHeading>>] }

NoEntry == [set |-> FALSE, val |-> << >>]
Entry(v) == [set |-> TRUE, val |-> v]

\* @st.cache load_file: the stored value on a hit, else the body's outcome
CachedLoad(file_name) ==
    IF cache[file_name].set THEN Ok(cache[file_name].val)
    ELSE load_file(files[file_name])

Init ==
    /\ count_text = << >>
    /\ rate_text = << >>
    /\ info = Pending
    /\ document = [tables |-> << >>, headings |-> << >>]
    /\ built = Pending
    /\ loaded = Pending
    /\ files \in [Keys -> SnapshotSet]
    /\ cache = [k \in Keys |-> NoEntry]
    /\ data = << >>
    /\ evolution_data = Pending
    /\ map_figure = Pending
    /\ error = "none"
    /\ pc = "read"

\* lines 291-292: data[ name ] = load_file( file_name ), one file per step
MainLoad(k) ==
    /\ pc = "read"
    /\ k \notin DOMAIN data
    /\ LET r == CachedLoad(k)
       IN  IF r.err # "none"
           THEN /\ error' = r.err
                /\ pc' = "failed"
                /\ UNCHANGED << cache, data >>
           ELSE /\ cache' = [cache EXCEPT ![k] = Entry(r.val)]
                /\ data' = [d \in DOMAIN data \cup {k} |->
                               IF d = k THEN r.val ELSE data[d]]
                /\ UNCHANGED << error, pc >>
    /\ UNCHANGED << count_text, rate_text, info, document, built, loaded,
                    files, evolution_data, map_figure >>

\* [ el.number for el in data[ d ] if "county" in el.info_type and el.description == c ]
\* (the two tests raise nothing, so the one on the description is made first)
CountyNumbers(d, c) ==
    LET els == SelectSeq(data[d], LAMBDA el : el.description = c /\ IsCounty(el))
    IN  [i \in 1..Len(els) |-> els[i].number]

\* lines 310-317: the series of the line chart
Evolution(selected_counties) ==
    IF selected_counties = {}
    THEN Ok([c \in {Total} |-> [d \in DOMAIN data |-> NumberCases(data[d])]])
    ELSE IF \E c \in selected_counties, d \in DOMAIN data : CountyNumbers(d, c) = << >>
    THEN Raise("IndexError")
    ELSE Ok([c \in selected_counties |->
                [d \in DOMAIN data |-> CountyNumbers(d, c)[1]]])

ShowEvolution(selected_counties) ==
    /\ pc = "read"
    /\ DOMAIN data = Keys
    /\ LET r == Evolution(selected_counties)
       IN  /\ evolution_data' = r
           /\ error' = r.err
           /\ pc' = IF r.err = "none" THEN "series" ELSE "failed"
    /\ UNCHANGED << count_text, rate_text, info, document, built, loaded,
                    files, cache, data, map_figure >>

\* line 323: selected_data = [ el for el in data[ selected_date ] if "county" in el.info_type ]
SelectedData(selected_date) == SelectSeq(data[selected_date], IsCounty)

\* max( [ el.number for el in data ] ), data not empty
MaxNumber(els) ==
    CHOOSE m \in { els[i].number : i \in 1..Len(els) } :
        \A i \in 1..Len(els) : els[i].number <= m

\* [ c for c in data if c.description == county ]
Described(els, county) == SelectSeq(els, LAMBDA c : c.description = county)

\* lines 139-146: the loop over Constants.COUNTY_SETTINGS from county i on;
\* each county is looked up (line 140) and then scaled by max_size (line 142)
RECURSIVE DrawCounties(_, _, _)
DrawCounties(els, max_size, i) ==
    IF i > Len(CountyOrder) THEN Ok(<< >>)
    ELSE IF Described(els, CountyOrder[i]) = << >> THEN Raise("IndexError")
    ELSE IF max_size = 0 THEN Raise("ZeroDivisionError")
    ELSE LET rest == DrawCounties(els, max_size, i + 1)
         IN  IF rest.err # "none" THEN rest
             ELSE Ok(<< Described(els, CountyOrder[i])[1].number >> \o rest.val)

\* plot_map: the label of every county's patch, in the order they are drawn
plot_map(els) ==
    IF els = << >> THEN Raise("ValueError")
    ELSE DrawCounties(els, MaxNumber(els), 1)

\* line 363: Constants.GITHUB_REPO, a name src/Constants.py does not define
Reference == Raise("AttributeError")

\* lines 322-363: the map of the selected date and what follows it; the charts
\* and tables of lines 330-361 raise nothing and keep no state, and line 363
\* ends every run that comes to it
ShowMap(selected_date) ==
    /\ pc = "series"
    /\ LET r == plot_map(SelectedData(selected_date))
       IN  /\ map_figure' = r
           /\ error' = IF r.err = "none" THEN Reference.err ELSE r.err
           /\ pc' = "failed"
    /\ UNCHANGED << count_text, rate_text, info, document, built, loaded,
                    files, cache, data, evolution_data >>

\* a widget interaction reruns the script from its first line (every script
\* run ends by an exception: pc = "failed")
Rerun ==
    /\ pc = "failed"
    /\ data' = << >>
    /\ evolution_data' = Pending
    /\ map_figure' = Pending
    /\ error' = "none"
    /\ pc' = "read"
    /\ UNCHANGED << count_text, rate_text, info, document, built, loaded,
                    files, cache >>

\* the environment replaces a snapshot file in the data directory; the files
\* are read at lines 291-292 only, so a replacement made later in a script run
\* is the replacement made before the next run reads them
Rewrite(k, doc) ==
    /\ pc = "read"
    /\ files[k] # doc
    /\ files' = [files EXCEPT ![k] = doc]
    /\ UNCHANGED << count_text, rate_text, info, document, built, loaded,
                    cache, data, evolution_data, map_figure,
                    error, pc >>

Next ==
    \/ \E k \in Keys : MainLoad(k)
    \/ \E sel \in Selections : ShowEvolution(sel)
    \/ \E selected_date \in Keys : ShowMap(selected_date)
    \/ Rerun
    \/ \E k \in Keys, doc \in SnapshotSet : Rewrite(k, doc)

Spec == Init /\ [][Next]_vars

\* ================================================================ claims
NoDigit(s) == \A i \in 1..Len(s) : s[i] \notin Digits

\* C1: a count text without any digit yields count 0 and a rate text without
\* any digit yields rate 0, and the construction raises no error.
C1_NoDigitYieldsZero ==
    pc = "constructed" =>
        /\ NoDigit(count_text) =>
              /\ ParseNumber(count_text).err = "none"
              /\ info.err = "none" => info.val.number = 0
        /\ NoDigit(rate_text) =>
              /\ ParseRate(rate_text).err = "none"
              /\ info.err = "none" => info.val.rate = Rat(0, 1)
        /\ NoDigit(count_text) /\ NoDigit(rate_text) => info.err = "none"

\* digit groups joined by ",": one to three digits, then groups of three
WellFormedThousands(s) ==
    /\ \E i \in 1..Len(s) : s[i] = ","
    /\ \A i \in 1..Len(s) : s[i] \in Digits \cup {","}
    /\ \E i \in 2..4 : i <= Len(s) /\ s[i] = "," /\ \A j \in 1..(i - 1) : s[j] \in Digits
    /\ \A i \in 1..Len(s) : s[i] = "," =>
          /\ i + 3 <= Len(s)
          /\ \A j \in (i + 1)..(i + 3) : s[j] \in Digits
          /\ i + 3 < Len(s) => s[i + 4] = ","

RemoveSeparators(s) == SelectSeq(s, LAMBDA c : c # ",")

\* C2: a count text that is a well-formed number with thousands separators
\* yields the integer without the separators, and no error.
C2_ThousandsSeparators ==
    pc = "constructed" /\ WellFormedThousands(count_text) =>
        /\ ParseNumber(count_text).err = "none"
        /\ rate_text = << >> =>
              /\ info.err = "none"
              /\ info.val.number = DigitsValue(RemoveSeparators(count_text))

Returned == pc = "done" /\ loaded.err = "none"

Counties_of(result) == SelectSeq(result, IsCounty)

\* the sum of two fractions, in lowest terms
RatAdd(a, b) == Rat(a.n * b.d + b.n * a.d, a.d * b.d)

RECURSIVE SumRates(_)
SumRates(els) ==
    IF els = << >> THEN [n |-> 0, d |-> 1]
    ELSE RatAdd(Head(els).rate, SumRates(Tail(els)))

\* C3: in a returned snapshot whose regional total is positive, every
\* regional record has rate = count / total * 100, whatever the rate text of
\* the source, and the regional rates sum to 100.
C3_RegionalRates ==
    Returned /\ SumNumbers(Counties_of(loaded.val)) > 0 =>
        LET total == SumNumbers(Counties_of(loaded.val))
            sum == SumRates(Counties_of(loaded.val))
        IN  /\ \A i \in 1..Len(loaded.val) :
                  IsCounty(loaded.val[i]) =>
                      loaded.val[i].rate.n * total
                          = loaded.val[i].number * 100 * loaded.val[i].rate.d
            /\ sum.n = 100 * sum.d

\* rate is shown as t thousandths by "{:.3f}": it lies strictly within half
\* a thousandth of t
ShownAs(rate, t) ==
    /\ 2 * (1000 * rate.n - t * rate.d) < rate.d
    /\ 2 * (t * rate.d - 1000 * rate.n) < rate.d

\* C3 witness: counts {Dublin: 10, Cork: 5, Clare: 0} rated 66.667, 33.333, 0.000
C3_Witness ==
    /\ Returned
    /\ LET c == Counties_of(loaded.val)
       IN  /\ Len(c) = 3
           /\ <<c[1].description, c[2].description, c[3].description>>
                 = << <<"D", "u", "b", "l", "i", "n">>,
                      <<"C", "o", "r", "k">>,
                      <<"C", "l", "a", "r", "e">> >>
           /\ <<c[1].number, c[2].number, c[3].number>> = <<10, 5, 0>>
           /\ ShownAs(c[1].rate, 66667)
           /\ ShownAs(c[2].rate, 33333)
           /\ ShownAs(c[3].rate, 0)

\* the paired prefix of a document
PairCount(doc) == Min(Len(doc.tables), Len(doc.headings))

Truncated(doc) ==
    [tables |-> SubSeq(doc.tables, 1, PairCount(doc)),
     headings |-> SubSeq(doc.headings, 1, PairCount(doc))]

DataRowsIn(table) == SelectSeq(table, LAMBDA row : ~row.strong)

\* the category of every record the first n pairs should give, in order
RECURSIVE ExpectedCategories(_, _)
ExpectedCategories(doc, n) ==
    IF n = 0 THEN << >>
    ELSE ExpectedCategories(doc, n - 1)
            \o [j \in 1..Len(DataRowsIn(doc.tables[n])) |-> strip(doc.headings[n])]

\* C4: with T tables and H headings, records come from the first min(T, H)
\* tables only, the i-th table's records under the trimmed i-th heading; what
\* lies beyond min(T, H) gives no record and raises no error (the call ends
\* as it does on the document cut to its first min(T, H) tables and headings).
C4_PairingStopsAtShorter ==
    pc = "done" =>
        /\ loaded.err = load_file(Truncated(document)).err
        /\ loaded.val = load_file(Truncated(document)).val
        /\ loaded.err = "none" =>
              LET cats == ExpectedCategories(document, PairCount(document))
              IN  /\ Len(loaded.val) = Len(cats)
                  /\ \A j \in 1..Len(cats) : loaded.val[j].info_type = cats[j]

\* C4 witness: one trailing unmatched heading, and records from the tables
C4_Witness ==
    /\ Returned
    /\ Len(document.headings) = Len(document.tables) + 1
    /\ loaded.val # << >>

\* the parsed data rows of the paired tables, each with its category
PairedDataRows(doc) ==
    UNION { { <<parse_html_table(doc.tables[i]).data[j], strip(doc.headings[i])>> :
                j \in 1..Len(parse_html_table(doc.tables[i]).data) } :
            i \in 1..PairCount(doc) }

\* C6: a data row of fewer than 3 cells is padded to 3 cells and yields
\* exactly one record without error; the missing fields become 0 (or the
\* empty description) and the count is parsed from the second cell.
C6_ShortRowYieldsRecord ==
    pc = "done" =>
        \A p \in PairedDataRows(document) :
            Len(p[1]) < RowWidth =>
                LET one == BuildRows(<<p[1]>>, p[2])
                IN  /\ Len(extend(p[1])) = RowWidth
                    /\ one.err = "none"
                    /\ Len(one.val) = 1
                    /\ one.val[1].rate = Rat(0, 1)
                    /\ Len(p[1]) < 2 => one.val[1].number = 0
                    /\ Len(p[1]) < 1 => one.val[1].description = << >>

\* C7: load_file fails with ZeroDivisionError exactly when the document
\* yields a record of a county category and the counts of those records sum
\* to 0; otherwise it returns the record list (empty without tables).
C7_DivisionByZeroExactly ==
    pc = "done" =>
        LET zero == /\ built.err = "none"
                    /\ Counties_of(built.val) # << >>
                    /\ SumNumbers(Counties_of(built.val)) = 0
        IN  /\ loaded.err = "ZeroDivisionError" <=> zero
            /\ ~zero =>
                  /\ loaded.err = "none"
                  /\ Len(loaded.val) = Len(ExpectedCategories(document, PairCount(document)))
                  /\ document.tables = << >> => loaded.val = << >>

CountyCategories(result) ==
    { result[i].info_type : i \in {j \in 1..Len(result) : IsCounty(result[j])} }

CategorySum(result, cat) ==
    SumNumbers(SelectSeq(result, LAMBDA el : el.info_type = cat))

RECURSIVE SumOver(_, _)
SumOver(result, cats) ==
    IF cats = {} THEN 0
    ELSE LET c == CHOOSE x \in cats : TRUE
         IN  CategorySum(result, c) + SumOver(result, cats \ {c})

\* C8 as stated: every record of a county category is rated against the sum
\* of the counts of its own category.
C8_RatePerCategory ==
    Returned =>
        \A i \in 1..Len(loaded.val) :
            IsCounty(loaded.val[i]) =>
                loaded.val[i].rate.n * CategorySum(loaded.val, loaded.val[i].info_type)
                    = loaded.val[i].number * 100 * loaded.val[i].rate.d

\* C8 amended: every record of a county category is rated against the sum of
\* the counts of all county categories of the document together; that is its
\* own category's sum when the document has one county category.
C8_RateOverAllCountyCategories ==
    Returned =>
        LET cats == CountyCategories(loaded.val)
            pooled == SumOver(loaded.val, cats)
        IN  \A i \in 1..Len(loaded.val) :
                IsCounty(loaded.val[i]) =>
                    /\ loaded.val[i].rate.n * pooled
                          = loaded.val[i].number * 100 * loaded.val[i].rate.d
                    /\ Cardinality(cats) = 1 =>
                          loaded.val[i].rate.n * CategorySum(loaded.val, loaded.val[i].info_type)
                              = loaded.val[i].number * 100 * loaded.val[i].rate.d

\* C8 witness: a returned snapshot with two county categories, both counted
C8_Witness ==
    /\ Returned
    /\ Cardinality(CountyCategories(loaded.val)) = 2
    /\ \A c \in CountyCategories(loaded.val) : CategorySum(loaded.val, c) > 0

\* the data rows of the first n paired tables, in document order
RECURSIVE ExpectedRows(_, _)
ExpectedRows(doc, n) ==
    IF n = 0 THEN << >>
    ELSE ExpectedRows(doc, n - 1) \o DataRowsIn(doc.tables[n])

\* C9: the returned sequence holds one record per data row of each paired
\* table, none for a header row, in table then row order; the rate pass
\* keeps the length and the order and changes nothing but the rate of the
\* records of a county category.
C9_OneRecordPerDataRow ==
    Returned =>
        LET rows == ExpectedRows(document, PairCount(document))
            cats == ExpectedCategories(document, PairCount(document))
        IN  /\ Len(loaded.val) = Len(rows)
            /\ Len(built.val) = Len(rows)
            /\ \A j \in 1..Len(rows) :
                  /\ loaded.val[j].description
                        = (IF rows[j].cells = << >> THEN << >> ELSE strip(rows[j].cells[1]))
                  /\ loaded.val[j].info_type = cats[j]
                  /\ loaded.val[j].description = built.val[j].description
                  /\ loaded.val[j].number = built.val[j].number
                  /\ loaded.val[j].info_type = built.val[j].info_type
                  /\ ~IsCounty(built.val[j]) => loaded.val[j].rate = built.val[j].rate

\* C9 witness: header rows skipped, county rates rewritten, and a rate of
\* the source kept in another category
C9_Witness ==
    /\ Returned
    /\ \E i \in 1..PairCount(document) :
          \E j \in 1..Len(document.tables[i]) : document.tables[i][j].strong
    /\ \E j \in 1..Len(loaded.val) :
          IsCounty(loaded.val[j]) /\ loaded.val[j].rate # built.val[j].rate
    /\ \E j \in 1..Len(loaded.val) :
          ~IsCounty(loaded.val[j]) /\ loaded.val[j].rate.n > 0

\* the counts of county c among the county records of snapshot d
CountsOf(d, c) ==
    SelectSeq(data[d], LAMBDA el : IsCounty(el) /\ el.description = c)

\* C10: the series is built without error for every selection, also when a
\* selected county has no record in some snapshot; it holds the county's
\* count per date, or per date the sum of the county counts when nothing is
\* selected.
C10_EvolutionSeries ==
    evolution_data.err # "pending" =>
        /\ evolution_data.err = "none"
        /\ \A c \in DOMAIN evolution_data.val :
              \A d \in Keys :
                  IF c = Total
                  THEN evolution_data.val[c][d] = SumNumbers(Counties_of(data[d]))
                  ELSE CountsOf(d, c) # << >> =>
                          evolution_data.val[c][d] = CountsOf(d, c)[1].number

====
